---------------------------- MODULE Spec2Model ----------------------------
(***************************************************************************)
(* State-machine model of the Qt client of the QTM real-time protocol:     *)
(* QtQTMProtocol (src/qtm_rt/qt_protocol.py), the socket it owns and the   *)
(* server at the other end of the stream.                                  *)
(*                                                                         *)
(* Bytes are integers 0..255.  Text is a sequence of code points; the      *)
(* model only sends ASCII, for which UTF-8 decoding maps each byte to the  *)
(* code point of the same value.  A response is the dict                   *)
(* {'type': ..., 'data': ...} of the code; its data is kept as a sequence  *)
(* of integers in every case (the text, the bytes of the Data body a       *)
(* QRTPacket wraps, or the one event code).                                *)
(*                                                                         *)
(* Qt runs every slot on one thread, so a slot is atomic with respect to   *)
(* the others.  _process_buffer is modelled one loop iteration per step    *)
(* (pc = "process" while the loop runs), because the loop is not           *)
(* guaranteed to end; no other slot runs while pc = "process".             *)
(***************************************************************************)
EXTENDS Integers, Sequences, FiniteSets, TLC

\* ------------------------------------------------------------------ bounds
MaxFrames == 3      \* frames a conforming server sends
MaxAnyFrames == 2   \* frames an arbitrary server sends
MaxSends == 2       \* send_command / send_xml calls made while connected
MaxDispatch == 5    \* _handle_packet calls recorded per connection
MaxGreetFrames == 2 \* frames a greeting server sends, the greeting included
MaxConnFrames == 3  \* frames the server sends to a client of QtQRTConnection
MaxWaits == 2       \* await_event calls
MaxCalls == 2       \* command method calls
MaxDataFrames == 2  \* frames a streaming server sends
MaxReplies == 2     \* answers a server gives to callers whose continuations may raise
MaxCalFrames == 3   \* frames the server of a calibration sends

\* --------------------------------------------------------- wire constants
\* RTheader = struct "<II": two little-endian u32, total size and type code.
RTheaderSize == 8

\* QRTPacketType (qtm_rt/packet.py, not among the files under src/).
PacketError == 0
PacketCommand == 1
PacketXML == 2
PacketData == 3
PacketNoMoreData == 4
PacketEvent == 6
QRTPacketTypeValues == 0..9

\* QRTEvent (qtm_rt/packet.py): the event codes the enumeration has.
QRTEventValues == 1..17

\* The metadata block a QRTPacket reads from the start of a Data body
\* (timestamp u64, frame number u32, component count u32).
QRTHeaderSize == 16

\* ----------------------------------------------------------------- bytes
\* struct.pack('<I', n)
LE32(n) ==
    << n % 256, (n \div 256) % 256, (n \div 65536) % 256, (n \div 16777216) % 256 >>

\* struct.unpack('<I', b)[0] of the four bytes of s starting at index i
U32(s, i) == s[i] + 256 * s[i + 1] + 65536 * s[i + 2] + 16777216 * s[i + 3]

\* Python slices s[:n] and s[n:] for 0 <= n
Take(s, n) == SubSeq(s, 1, IF n < Len(s) THEN n ELSE Len(s))
Drop(s, n) == SubSeq(s, n + 1, Len(s))

\* str.rstrip('\x00')
RECURSIVE RStripNul(_)
RStripNul(s) ==
    IF s # << >> /\ s[Len(s)] = 0 THEN RStripNul(SubSeq(s, 1, Len(s) - 1)) ELSE s

\* bytes(data[RTheader.size:]).decode('utf-8').rstrip('\x00')
DecodeText(data) == RStripNul(Drop(data, RTheaderSize))

\* header + command_bytes + b'\x00', as send_command and send_xml build it
Packet(ptype, text) ==
    LE32(RTheaderSize + Len(text) + 1) \o LE32(ptype) \o text \o << 0 >>

\* The bytes of a frame as the server puts it on the stream.
FrameBytes(f) == LE32(f.size) \o LE32(f.type) \o f.body

Response(ptype, data) == [type |-> ptype, data |-> data]

\* ------------------------------------------------------------ environment
\* What the server may send.  Well-formed frames of the five kinds the
\* client handles, an Event frame without a code, a frame of a kind the
\* enumeration has but the client does not handle, a frame of a kind the
\* enumeration does not have, and headers declaring less than a header.
WellFormed(ptype, body) == [size |-> RTheaderSize + Len(body), type |-> ptype, body |-> body]

ZeroMeta == [i \in 1..QRTHeaderSize |-> 0]

ValidFrames ==
    { WellFormed(PacketError, << 69, 0 >>),
      WellFormed(PacketCommand, << 67, 0 >>),
      WellFormed(PacketXML, << 88, 0 >>),
      WellFormed(PacketData, ZeroMeta),
      WellFormed(PacketEvent, << 1 >>) }

OddFrames ==
    { WellFormed(PacketEvent, << >>),
      WellFormed(PacketNoMoreData, << >>),
      WellFormed(11, << >>),
      [size |-> 0, type |-> PacketCommand, body |-> << >>],
      [size |-> 4, type |-> PacketCommand, body |-> << >>] }

ServerFrames == ValidFrames \cup OddFrames

\* Strings a caller sends ("Q").
Commands == { << 81 >> }

\* ------------------------------------------------------------------ state
VARIABLES
    connected_flag,   \* QtQTMProtocol.connected_flag
    buffer,           \* QtQTMProtocol.buffer
    callback_queue,   \* QtQTMProtocol.callback_queue: entries [id, cb], cb = FALSE for None
    pc,               \* "idle", or "process" inside _process_buffer's loop
    link,             \* the socket: "unconnected", "connected" or "closed"
    net,              \* bytes the server has sent and the socket has not yet delivered
    out,              \* what the last step did: calls, emissions, writes, exception
    sent,             \* history: frames the server sent on this connection
    dispatched,       \* history: frames handed to _handle_packet on this connection
    delivered,        \* history: continuations invoked, with the response each got
    sends,            \* history: per accepted send, when and where it was enqueued
    nrr,              \* history: number of _deliver_callback calls so far
    current_callback,         \* QtQRTConnection.current_callback: send id, or None
    event_callback,           \* QtQRTConnection.event_callback: wait id, or None
    expected_event,           \* QtQRTConnection.expected_event: event code, or None
    calibration_in_progress,  \* QtQRTConnection.calibration_in_progress
    cout,             \* what the slots of QtQRTConnection did in the last step
    waits,            \* history: per await_event call, what was asked for
    resolved,         \* history: event callbacks invoked, with the code each got
    calls             \* history: per command method call, the method and its send

\* Python's None where the model keeps an id or an event code.
None == 0

\* The fields of QtQRTConnection and their history.
conn == << current_callback, event_callback, expected_event,
           calibration_in_progress, cout, waits, resolved, calls >>

\* The effects of the slots of QtQRTConnection in one step.
ConnEffects(called, recalled, emitted) ==
    [ called |-> called,      \* event callbacks called, each with its code
      recalled |-> recalled,  \* current_callback called, with its response
      emitted |-> emitted ]   \* signals of QtQRTConnection emitted

ConnQuiet == ConnEffects(<< >>, << >>, << >>)

vars == << connected_flag, buffer, callback_queue, pc, link, net, out, sent,
           dispatched, delivered, sends, nrr, conn >>

hist == << sent, dispatched, delivered, sends, nrr >>

\* The effects of one step.
Effects(op, frame, invoked, resp, err, wrote, raised, sig) ==
    [ op |-> op,            \* the handler that ran
      frame |-> frame,      \* << >>, or the one frame passed to _handle_packet
      invoked |-> invoked,  \* continuations called, each with its response
      resp |-> resp,        \* responses emitted on response_received
      err |-> err,          \* messages emitted on error_occurred
      wrote |-> wrote,      \* packets written to the socket
      raised |-> raised,    \* "none", or the exception that left the handler
      sig |-> sig ]         \* "connected" / "disconnected" emitted

Quiet(op) == Effects(op, << >>, << >>, << >>, << >>, << >>, "none", << >>)

Init ==
    /\ connected_flag = FALSE
    /\ buffer = << >>
    /\ callback_queue = << >>
    /\ pc = "idle"
    /\ link = "unconnected"
    /\ net = << >>
    /\ out = Quiet("init")
    /\ sent = << >>
    /\ dispatched = << >>
    /\ delivered = << >>
    /\ sends = << >>
    /\ nrr = 0
    /\ current_callback = None
    /\ event_callback = None
    /\ expected_event = None
    /\ calibration_in_progress = FALSE
    /\ cout = ConnQuiet
    /\ waits = << >>
    /\ resolved = << >>
    /\ calls = << >>


\* ------------------------------------------------------ QtQTMProtocol code
\* Variant: pop() instead of pop(0), the newest entry is answered first.
DeliverCallbackLast(q, response) ==
    IF q # << >>
    THEN LET callback == q[Len(q)] IN
         IF callback.cb
         THEN [queue |-> SubSeq(q, 1, Len(q) - 1),
               invoked |-> << [id |-> callback.id, resp |-> response] >>,
               resp |-> << >>]
         ELSE [queue |-> SubSeq(q, 1, Len(q) - 1), invoked |-> << >>,
               resp |-> << response >>]
    ELSE [queue |-> q, invoked |-> << >>, resp |-> << response >>]

\* Variant: the head is read with [0] and a continuation is left in the queue.
DeliverCallbackNoPop(q, response) ==
    IF q # << >>
    THEN LET callback == Head(q) IN
         IF callback.cb
         THEN [queue |-> q,
               invoked |-> << [id |-> callback.id, resp |-> response] >>,
               resp |-> << >>]
         ELSE [queue |-> Tail(q), invoked |-> << >>, resp |-> << response >>]
    ELSE [queue |-> q, invoked |-> << >>, resp |-> << response >>]

\* Variant: only a continuation is popped, a placeholder stays at the head.
DeliverCallbackKeepNone(q, response) ==
    IF q # << >>
    THEN LET callback == Head(q) IN
         IF callback.cb
         THEN [queue |-> Tail(q),
               invoked |-> << [id |-> callback.id, resp |-> response] >>,
               resp |-> << >>]
         ELSE [queue |-> q, invoked |-> << >>, resp |-> << response >>]
    ELSE [queue |-> q, invoked |-> << >>, resp |-> << response >>]

\* Variant: no else branch, a response that finds the queue empty is dropped.
DeliverCallbackDrop(q, response) ==
    IF q # << >>
    THEN LET callback == Head(q) IN
         IF callback.cb
         THEN [queue |-> Tail(q),
               invoked |-> << [id |-> callback.id, resp |-> response] >>,
               resp |-> << >>]
         ELSE [queue |-> Tail(q), invoked |-> << >>, resp |-> << response >>]
    ELSE [queue |-> q, invoked |-> << >>, resp |-> << >>]

\* _deliver_callback(response) on queue q: the queue afterwards, the
\* continuation called, the response emitted.
DeliverCallback(q, response) ==
    IF q # << >>
    THEN LET callback == Head(q) IN
         IF callback.cb
         THEN [queue |-> Tail(q),
               invoked |-> << [id |-> callback.id, resp |-> response] >>,
               resp |-> << >>]
         ELSE [queue |-> Tail(q), invoked |-> << >>, resp |-> << response >>]
    ELSE [queue |-> q, invoked |-> << >>, resp |-> << response >>]

\* ------------------------------------------------------- Data frame bodies
\* QRTPacket (qtm_rt/packet.py, not among the files under src/) decodes the
\* body of a Data frame: the metadata block, then per component a header
\* (kind u32, byte length of the block u32, header included) and a payload.
\* The payload of the 3D kind is a marker count u32 and, per marker, x, y
\* and z as f32, kept here as the 32 bits read.
Component3d == 1
ComponentHeaderSize == 8
MarkerSize == 12

DecodeError == [ok |-> FALSE, components |-> << >>, reach |-> 0]

\* The component blocks of body from index pos on, n of them still to come.
RECURSIVE ComponentBlocks(_, _, _, _)
ComponentBlocks(body, pos, n, acc) ==
    IF n = 0 THEN [ok |-> TRUE, blocks |-> acc, reach |-> pos - 1]
    ELSE IF pos + ComponentHeaderSize - 1 > Len(body)
    THEN [ok |-> FALSE, blocks |-> acc, reach |-> pos - 1]
    ELSE LET kind == U32(body, pos)
             length == U32(body, pos + 4)
         IN  IF length < ComponentHeaderSize \/ pos + length - 1 > Len(body)
             THEN [ok |-> FALSE, blocks |-> acc, reach |-> pos + ComponentHeaderSize - 1]
             ELSE ComponentBlocks(body, pos + length, n - 1,
                                  Append(acc, [kind |-> kind,
                                               start |-> pos + ComponentHeaderSize,
                                               length |-> length - ComponentHeaderSize]))

\* The payload of a 3D block holds its count and that many markers.
MarkersFit(body, block) ==
    /\ block.length >= 4
    /\ 4 + MarkerSize * U32(body, block.start) <= block.length

\* Variant: the records are read from the start of the payload, the count
\* field taken for part of the first marker.
MarkersNoCount(body, block) ==
    [i \in 1..U32(body, block.start) |->
        LET at == block.start + MarkerSize * (i - 1)
        IN  << U32(body, at), U32(body, at + 4), U32(body, at + 8) >>]

\* get_3d_markers on a 3D block: one record per marker counted.
Markers(body, block) ==
    [i \in 1..U32(body, block.start) |->
        LET at == block.start + 4 + MarkerSize * (i - 1)
        IN  << U32(body, at), U32(body, at + 4), U32(body, at + 8) >>]

\* QRTPacket(body): the components in order, each with its records; blocks
\* of other kinds are stepped over by their length.
DecodeData(body) ==
    IF Len(body) < QRTHeaderSize THEN DecodeError
    ELSE LET w == ComponentBlocks(body, QRTHeaderSize + 1, U32(body, 13), << >>) IN
         IF ~w.ok THEN DecodeError
         ELSE IF \E i \in DOMAIN w.blocks :
                    w.blocks[i].kind = Component3d /\ ~MarkersFit(body, w.blocks[i])
         THEN DecodeError
         ELSE [ok |-> TRUE,
               components |->
                   [i \in DOMAIN w.blocks |->
                       [kind |-> w.blocks[i].kind,
                        records |-> IF w.blocks[i].kind = Component3d
                                    THEN Markers(body, w.blocks[i]) ELSE << >>]],
               reach |-> w.reach]

\* QRTPacket(body) raises when the body does not decode: it is shorter than
\* the metadata block, or a component block does not fit.
QRTPacketRaises(body) == ~DecodeData(body).ok

\* What _handle_packet(packet_type, data) does on queue q.
Handled(raised, q, invoked, resp, err) ==
    [raised |-> raised, queue |-> q, invoked |-> invoked, resp |-> resp, err |-> err]

\* Variant: Data and Event frames go through _deliver_callback like the
\* request-response kinds.
HandlePacketAllQueued(packet_type, data, q) ==
    IF packet_type \notin QRTPacketTypeValues
    THEN Handled("ValueError", q, << >>, << >>, << >>)
    ELSE IF packet_type \in { PacketError, PacketCommand, PacketXML }
    THEN LET d == DeliverCallback(q, Response(packet_type, DecodeText(data))) IN
         Handled("none", d.queue, d.invoked, d.resp,
                 IF packet_type = PacketError THEN << DecodeText(data) >> ELSE << >>)
    ELSE IF packet_type = PacketData
    THEN LET body == Drop(data, RTheaderSize) IN
         IF QRTPacketRaises(body)
         THEN Handled("struct.error", q, << >>, << >>, << >>)
         ELSE LET d == DeliverCallback(q, Response(PacketData, body)) IN
              Handled("none", d.queue, d.invoked, d.resp, << >>)
    ELSE IF packet_type = PacketEvent
    THEN LET event_data == Drop(data, RTheaderSize) IN
         IF Len(event_data) >= 1
         THEN IF event_data[1] \notin QRTEventValues
              THEN Handled("ValueError", q, << >>, << >>, << >>)
              ELSE LET d == DeliverCallback(q, Response(PacketEvent, << event_data[1] >>)) IN
                   Handled("none", d.queue, d.invoked, d.resp, << >>)
         ELSE Handled("none", q, << >>, << >>, << >>)
    ELSE Handled("none", q, << >>, << >>, << >>)

HandlePacket(packet_type, data, q) ==
    IF packet_type \notin QRTPacketTypeValues
    THEN Handled("ValueError", q, << >>, << >>, << >>)
    ELSE IF packet_type = PacketError
    THEN LET error_message == DecodeText(data)
             d == DeliverCallback(q, Response(PacketError, error_message)) IN
         Handled("none", d.queue, d.invoked, d.resp, << error_message >>)
    ELSE IF packet_type = PacketCommand
    THEN LET d == DeliverCallback(q, Response(PacketCommand, DecodeText(data))) IN
         Handled("none", d.queue, d.invoked, d.resp, << >>)
    ELSE IF packet_type = PacketXML
    THEN LET d == DeliverCallback(q, Response(PacketXML, DecodeText(data))) IN
         Handled("none", d.queue, d.invoked, d.resp, << >>)
    ELSE IF packet_type = PacketData
    THEN LET body == Drop(data, RTheaderSize) IN
         IF QRTPacketRaises(body)
         THEN Handled("struct.error", q, << >>, << >>, << >>)
         ELSE Handled("none", q, << >>, << Response(PacketData, body) >>, << >>)
    ELSE IF packet_type = PacketEvent
    THEN LET event_data == Drop(data, RTheaderSize) IN
         IF Len(event_data) >= 1
         THEN IF event_data[1] \notin QRTEventValues
              THEN Handled("ValueError", q, << >>, << >>, << >>)
              ELSE Handled("none", q, << >>,
                           << Response(PacketEvent, << event_data[1] >>) >>, << >>)
         ELSE Handled("none", q, << >>, << >>, << >>)
    ELSE Handled("none", q, << >>, << >>, << >>)

\* The entry a send appends: the callback, or None when none was given.
Entry(id, callback) == [id |-> id, cb |-> callback]

\* Variant: no connected_flag test, the packet is written and the callback
\* enqueued in any state.
SendUnguarded(op, ptype, text, callback) ==
    /\ pc = "idle"
    /\ Len(sends) < MaxSends
    /\ out' = Effects(op, << >>, << >>, << >>, << >>,
                      << Packet(ptype, text) >>, "none", << >>)
    /\ callback_queue' = Append(callback_queue, Entry(Len(sends) + 1, callback))
    /\ sends' = Append(sends, [id |-> Len(sends) + 1, cb |-> callback,
                               at |-> nrr, pos |-> Len(callback_queue) + 1])
    /\ UNCHANGED << connected_flag, buffer, pc, link, net, sent, dispatched,
                    delivered, nrr >>

\* Variant: a send without a callback enqueues nothing.
SendSkipNone(op, ptype, text, callback) ==
    /\ pc = "idle"
    /\ IF ~connected_flag
       THEN /\ out' = Quiet(op)
            /\ UNCHANGED << callback_queue, sends >>
       ELSE /\ Len(sends) < MaxSends
            /\ out' = Effects(op, << >>, << >>, << >>, << >>,
                              << Packet(ptype, text) >>, "none", << >>)
            /\ callback_queue' = IF callback
                                 THEN Append(callback_queue, Entry(Len(sends) + 1, callback))
                                 ELSE callback_queue
            /\ sends' = Append(sends, [id |-> Len(sends) + 1, cb |-> callback,
                                       at |-> nrr, pos |-> Len(callback_queue) + 1])
    /\ UNCHANGED << connected_flag, buffer, pc, link, net, sent, dispatched,
                    delivered, nrr >>

\* send_command / send_xml, shared body: packet type ptype, text, callback
\* (FALSE for None).
Send(op, ptype, text, callback) ==
    /\ pc = "idle"
    /\ IF ~connected_flag
       THEN /\ out' = Quiet(op)
            /\ UNCHANGED << callback_queue, sends >>
       ELSE /\ Len(sends) < MaxSends
            /\ out' = Effects(op, << >>, << >>, << >>, << >>,
                              << Packet(ptype, text) >>, "none", << >>)
            /\ callback_queue' = Append(callback_queue, Entry(Len(sends) + 1, callback))
            /\ sends' = Append(sends, [id |-> Len(sends) + 1, cb |-> callback,
                                       at |-> nrr, pos |-> Len(callback_queue) + 1])
    /\ UNCHANGED << connected_flag, buffer, pc, link, net, sent, dispatched,
                    delivered, nrr >>

SendCommand(command_str, callback) == Send("send_command", PacketCommand, command_str, callback)

SendXml(xml_string, callback) == Send("send_xml", PacketXML, xml_string, callback)

\* connect_to_server, the transport connection succeeding.
ConnectToServer ==
    /\ pc = "idle"
    /\ link = "unconnected"
    /\ link' = "connected"
    /\ out' = Quiet("connect_to_server")
    /\ UNCHANGED << connected_flag, buffer, callback_queue, pc, net, hist >>

\* The server writes one frame to the stream.  It does so once the client
\* has seen the connection come up.
ServerWrites(f, max) ==
    /\ pc = "idle"
    /\ link = "connected"
    /\ connected_flag
    /\ Len(sent) < max
    /\ net' = net \o FrameBytes(f)
    /\ sent' = Append(sent, f)
    /\ out' = Quiet("server")
    /\ UNCHANGED << connected_flag, buffer, callback_queue, pc, link, dispatched,
                    delivered, sends, nrr >>

\* _on_connected, with k bytes of the stream already at the socket.
OnConnected(k) ==
    /\ pc = "idle"
    /\ link = "connected"
    /\ ~connected_flag
    /\ connected_flag' = TRUE
    /\ net' = Drop(net, k)
    /\ out' = Effects("_on_connected", << >>, << >>,
                      IF k > 0
                      THEN << Response(PacketCommand, RStripNul(Take(net, k))) >>
                      ELSE << >>,
                      << >>, << >>, "none", << "connected" >>)
    /\ UNCHANGED << buffer, callback_queue, pc, link, sent, dispatched, delivered,
                    sends, nrr >>

\* _on_disconnected
OnDisconnected ==
    /\ pc = "idle"
    /\ link = "connected"
    /\ connected_flag
    /\ connected_flag' = FALSE
    /\ link' = "closed"
    /\ net' = << >>
    /\ out' = Effects("_on_disconnected", << >>, << >>, << >>, << >>, << >>,
                      "none", << "disconnected" >>)
    /\ UNCHANGED << buffer, callback_queue, pc, hist >>

\* _on_ready_read: the k bytes that have arrived are read and appended,
\* and _process_buffer starts.
OnReadyRead(k) ==
    /\ pc = "idle"
    /\ link = "connected"
    /\ connected_flag
    /\ buffer' = buffer \o Take(net, k)
    /\ net' = Drop(net, k)
    /\ pc' = "process"
    /\ out' = Quiet("_on_ready_read")
    /\ UNCHANGED << connected_flag, callback_queue, link, hist >>

\* Variant: a frame is passed on as soon as its header is buffered.
FrameReadyHeader ==
    Len(buffer) >= RTheaderSize

\* Variant: <= for <, a frame is held back until a byte of the next arrives.
FrameReadyStrict ==
    /\ Len(buffer) >= RTheaderSize
    /\ Len(buffer) > U32(buffer, 1)

\* The first frame of the buffer is complete: _process_buffer passes it on.
FrameReady ==
    /\ Len(buffer) >= RTheaderSize
    /\ Len(buffer) >= U32(buffer, 1)

\* One iteration of the loop of _process_buffer.
ProcessBuffer ==
    /\ pc = "process"
    /\ IF ~FrameReady
       THEN /\ pc' = "idle"
            /\ out' = Quiet("_process_buffer")
            /\ UNCHANGED << buffer, callback_queue, dispatched, delivered, nrr >>
       ELSE LET packet_size == U32(buffer, 1)
                packet_type == U32(buffer, 5)
                packet_data == Take(buffer, packet_size)
                h == HandlePacket(packet_type, packet_data, callback_queue)
                frame == [type |-> packet_type, data |-> packet_data]
            IN  /\ Len(dispatched) < MaxDispatch
                /\ dispatched' = Append(dispatched, frame)
                /\ out' = Effects("_process_buffer", << frame >>, h.invoked, h.resp,
                                  h.err, << >>, h.raised, << >>)
                /\ callback_queue' = h.queue
                /\ delivered' = IF h.invoked = << >> THEN delivered
                                ELSE Append(delivered,
                                            [id |-> h.invoked[1].id,
                                             resp |-> h.invoked[1].resp,
                                             n |-> nrr + 1,
                                             frame |-> Len(dispatched) + 1])
                /\ nrr' = IF packet_type \in { PacketError, PacketCommand, PacketXML }
                          THEN nrr + 1 ELSE nrr
                /\ IF h.raised # "none"
                   THEN pc' = "idle" /\ UNCHANGED buffer
                   ELSE pc' = "process" /\ buffer' = Drop(buffer, packet_size)
    /\ UNCHANGED << connected_flag, link, net, sent, sends >>

\* One iteration of the loop of _process_buffer in which the continuation
\* called by _deliver_callback raises: the entry was popped before the call
\* (line 206), the exception leaves _handle_packet and _process_buffer ahead
\* of the assignment that cuts the frame off the buffer (line 161).
ProcessBufferRaises ==
    /\ pc = "process"
    /\ FrameReady
    /\ Len(dispatched) < MaxDispatch
    /\ LET packet_size == U32(buffer, 1)
           packet_type == U32(buffer, 5)
           packet_data == Take(buffer, packet_size)
           h == HandlePacket(packet_type, packet_data, callback_queue)
           frame == [type |-> packet_type, data |-> packet_data]
       IN  /\ h.raised = "none"
           /\ h.invoked # << >>
           /\ dispatched' = Append(dispatched, frame)
           /\ out' = Effects("_process_buffer", << frame >>, h.invoked, h.resp,
                             h.err, << >>, "callback", << >>)
           /\ callback_queue' = h.queue
           /\ delivered' = Append(delivered,
                                  [id |-> h.invoked[1].id,
                                   resp |-> h.invoked[1].resp,
                                   n |-> nrr + 1,
                                   frame |-> Len(dispatched) + 1])
           /\ nrr' = nrr + 1
           /\ pc' = "idle"
    /\ UNCHANGED << connected_flag, buffer, link, net, sent, sends >>

\* A server that keeps to the wire format.
ServerSend(f) == ServerWrites(f, MaxFrames)

\* A server that may send anything.
ServerSendAny(f) == ServerWrites(f, MaxAnyFrames)

\* QtQTMProtocol used on its own: no slot of a QtQRTConnection is attached.
Alone == UNCHANGED conn

Client ==
    \/ ConnectToServer /\ Alone
    \/ \E k \in 0..Len(net) : OnConnected(k) /\ Alone
    \/ OnDisconnected /\ Alone
    \/ \E k \in 1..Len(net) : OnReadyRead(k) /\ Alone
    \/ ProcessBuffer /\ Alone
    \/ \E c \in Commands, cb \in BOOLEAN : SendCommand(c, cb) /\ Alone
    \/ \E x \in Commands, cb \in BOOLEAN : SendXml(x, cb) /\ Alone

Next == Client \/ \E f \in ValidFrames : ServerSend(f) /\ Alone

NextAny == Client \/ \E f \in ServerFrames : ServerSendAny(f) /\ Alone

\* The client with a server that keeps to the wire format.
Spec == Init /\ [][Next]_vars

\* The client with a server that may send anything.
SpecAny == Init /\ [][NextAny]_vars

\* The answers a server gives to commands.
ReplyFrames ==
    { WellFormed(PacketCommand, << 67, 0 >>),
      WellFormed(PacketXML, << 88, 0 >>) }

ServerReplies(f) == ServerWrites(f, MaxReplies)

NextRaise ==
    \/ Client
    \/ \E f \in ReplyFrames : ServerReplies(f) /\ Alone
    \/ ProcessBufferRaises /\ Alone

\* The client with callers whose continuations may raise.
SpecRaise == Init /\ [][NextRaise]_vars

\* connect_to_server on a protocol object whose connection has closed: the
\* socket connects again; buffer, callback_queue and connected_flag are the
\* fields of the object and stay as the closed connection left them.
Reconnect ==
    /\ pc = "idle"
    /\ link = "closed"
    /\ link' = "connected"
    /\ out' = Quiet("connect_to_server")
    /\ UNCHANGED << connected_flag, buffer, callback_queue, pc, net, hist >>

NextReconnect ==
    \/ Client
    \/ \E f \in ReplyFrames : ServerReplies(f) /\ Alone
    \/ Reconnect /\ Alone

\* The client connecting again after its connection has closed.
SpecReconnect == Init /\ [][NextReconnect]_vars

\* The greeting a QTM server writes as soon as a client connects, a Command
\* frame with a text ("G").
Greeting == WellFormed(PacketCommand, << 71, 0 >>)

\* The server greets: the first frame of the connection, written when the
\* transport connection is up, whether or not the client has seen it yet.
ServerGreets ==
    /\ pc = "idle"
    /\ link = "connected"
    /\ sent = << >>
    /\ net' = net \o FrameBytes(Greeting)
    /\ sent' = << Greeting >>
    /\ out' = Quiet("server")
    /\ UNCHANGED << connected_flag, buffer, callback_queue, pc, link, dispatched,
                    delivered, sends, nrr >>

\* The server answers a command, after its greeting.
ServerAnswers(f) == sent # << >> /\ ServerWrites(f, MaxGreetFrames)

GreetNext ==
    \/ Client
    \/ ServerGreets /\ Alone
    \/ ServerAnswers(WellFormed(PacketCommand, << 67, 0 >>)) /\ Alone

\* The client with a server that greets.
SpecGreet == Init /\ [][GreetNext]_vars

\* --------------------------------------------------------- QtQRTConnection
\* The connection object owns a QtQTMProtocol and has one slot,
\* _on_response_received, on the protocol's response_received; Qt calls it
\* inside the emit, so it runs in the step that emits.  Callers supply their
\* own callback to the command methods below.

\* Event codes the server sends and callers wait for.
EventCodes == { 1, 2 }

\* What is kept of an await_event call: the event asked for, whether a
\* callback came with it, how many frames had been handled by then, and
\* whether its timeout has passed since.
Wait(event, callback) ==
    [ev |-> event, cb |-> callback, at |-> Len(dispatched), expired |-> FALSE]

\* What a slot leaves behind: the four fields and what it called or emitted.
SlotResult(cur, ecb, exp, cal, called, recalled, emitted) ==
    [ current_callback |-> cur, event_callback |-> ecb, expected_event |-> exp,
      calibration_in_progress |-> cal, called |-> called, recalled |-> recalled,
      emitted |-> emitted ]

\* Variant: a wait for one event is resolved by any event.
OnEventReceivedAny(event_type, cur, ecb, exp, cal) ==
    SlotResult(cur, None, None, cal,
               IF ecb # None THEN << [id |-> ecb, code |-> event_type] >> ELSE << >>,
               << >>, << >>)

\* Variant: the callback is called and the wait is left registered.
OnEventReceivedKeep(event_type, cur, ecb, exp, cal) ==
    IF exp = None \/ exp = event_type
    THEN SlotResult(cur, ecb, exp, cal,
                    IF ecb # None THEN << [id |-> ecb, code |-> event_type] >> ELSE << >>,
                    << >>, << >>)
    ELSE SlotResult(cur, ecb, exp, cal, << >>, << >>, << >>)

\* Variant: the callback gets the event it asked for, not the one received.
OnEventReceivedAsked(event_type, cur, ecb, exp, cal) ==
    IF exp = None \/ exp = event_type
    THEN SlotResult(cur, None, None, cal,
                    IF ecb # None THEN << [id |-> ecb, code |-> exp] >> ELSE << >>,
                    << >>, << >>)
    ELSE SlotResult(cur, ecb, exp, cal, << >>, << >>, << >>)

\* _on_event_received(event_type)
OnEventReceived(event_type, cur, ecb, exp, cal) ==
    IF exp = None \/ exp = event_type
    THEN SlotResult(cur, None, None, cal,
                    IF ecb # None THEN << [id |-> ecb, code |-> event_type] >> ELSE << >>,
                    << >>, << >>)
    ELSE SlotResult(cur, ecb, exp, cal, << >>, << >>, << >>)

\* The Data branch of _on_response_received: the markers of the 3D
\* component, if the packet has one, are emitted on markers_3d_received.
Markers3dReceived(body) ==
    LET c == DecodeData(body).components
        has == { i \in DOMAIN c : c[i].kind = Component3d }
    IN  IF has = { } THEN << >>
        ELSE << [signal |-> "markers_3d_received",
                 data |-> c[CHOOSE i \in has : \A j \in has : i <= j].records] >>

\* _on_response_received(response)
OnResponseReceived(response, cur, ecb, exp, cal) ==
    IF cal /\ response.type = PacketXML
    THEN SlotResult(cur, ecb, exp, FALSE, << >>, << >>,
                    << [signal |-> "calibration_completed", data |-> response.data] >>)
    ELSE IF response.type = PacketEvent
    THEN OnEventReceived(response.data[1], cur, ecb, exp, cal)
    ELSE IF response.type = PacketData
    THEN SlotResult(cur, ecb, exp, cal, << >>, << >>, Markers3dReceived(response.data))
    ELSE IF cur # None
    THEN SlotResult(None, ecb, exp, cal, << >>,
                    << [id |-> cur, resp |-> response] >>, << >>)
    ELSE SlotResult(cur, ecb, exp, cal, << >>, << >>,
                    << [signal |-> "response_received", data |-> response] >>)

\* The slot, run on what the protocol emitted in this step.
Slot ==
    IF out'.resp = << >>
    THEN /\ cout' = ConnQuiet
         /\ UNCHANGED << current_callback, event_callback, expected_event,
                         calibration_in_progress, waits, resolved, calls >>
    ELSE LET r == OnResponseReceived(out'.resp[1], current_callback, event_callback,
                                     expected_event, calibration_in_progress)
         IN  /\ current_callback' = r.current_callback
             /\ event_callback' = r.event_callback
             /\ expected_event' = r.expected_event
             /\ calibration_in_progress' = r.calibration_in_progress
             /\ cout' = ConnEffects(r.called, r.recalled, r.emitted)
             /\ resolved' = IF r.called = << >> THEN resolved
                            ELSE Append(resolved, [id |-> r.called[1].id,
                                                   code |-> r.called[1].code,
                                                   frame |-> Len(dispatched')])
             /\ UNCHANGED << waits, calls >>

\* await_event(event, timeout, callback): the fields are overwritten; the
\* timeout is logged and nothing else is done with it.
AwaitEvent(event, callback) ==
    /\ pc = "idle"
    /\ Len(waits) < MaxWaits
    /\ expected_event' = event
    /\ event_callback' = IF callback THEN Len(waits) + 1 ELSE None
    /\ waits' = Append(waits, Wait(event, callback))
    /\ cout' = ConnQuiet
    /\ out' = Quiet("await_event")
    /\ UNCHANGED << connected_flag, buffer, callback_queue, pc, link, net, hist,
                    current_callback, calibration_in_progress, resolved, calls >>

\* The timeout given to the i-th await_event passes.  No timer was started
\* for it, so no code runs.
TimeoutElapses(i) ==
    /\ pc = "idle"
    /\ ~waits[i].expired
    /\ \A j \in DOMAIN resolved : resolved[j].id # i
    /\ waits' = [waits EXCEPT ![i].expired = TRUE]
    /\ cout' = ConnQuiet
    /\ out' = Quiet("timeout")
    /\ UNCHANGED << connected_flag, buffer, callback_queue, pc, link, net, hist,
                    current_callback, event_callback, expected_event,
                    calibration_in_progress, resolved, calls >>

\* A command method called with the caller's callback: current_callback is
\* set and the command is sent with the callback.
Command(method, cmd) ==
    /\ Len(calls) < MaxCalls
    /\ SendCommand(cmd, TRUE)
    /\ current_callback' = Len(calls) + 1
    /\ calls' = Append(calls, [method |-> method,
                               send |-> IF connected_flag THEN Len(sends) + 1 ELSE None])
    /\ cout' = ConnQuiet
    /\ UNCHANGED << event_callback, expected_event, calibration_in_progress,
                    waits, resolved >>

\* "qtmversion"
QtmVersionCmd == << 113, 116, 109, 118, 101, 114, 115, 105, 111, 110 >>

\* qtm_version(callback)
QtmVersion == Command("qtm_version", QtmVersionCmd)

\* Component lists a caller asks for (['3d']), joined with spaces.
Components == { << 51, 100 >> }

\* "getcurrentframe " followed by the components
GetCurrentFrameCmd(components) ==
    << 103, 101, 116, 99, 117, 114, 114, 101, 110, 116, 102, 114, 97, 109, 101, 32 >>
        \o components

\* get_current_frame(components, callback), the components being valid
GetCurrentFrame(components) == Command("get_current_frame", GetCurrentFrameCmd(components))

\* What the server sends to a client of the connection layer: events, and
\* the answers to commands, a frame of data or a text.
EventFrames == { WellFormed(PacketEvent, << e >>) : e \in EventCodes }

AnswerFrames == { WellFormed(PacketData, ZeroMeta), WellFormed(PacketCommand, << 67, 0 >>) }

ServerSendEvent(f) == ServerWrites(f, MaxConnFrames)

ServerSendAnswer(f) == ServerWrites(f, MaxConnFrames)

\* The steps of the protocol under a QtQRTConnection, each running the slot
\* on what it emits.  The socket hands over
\* the frames written so far whole; reads that cut a frame are the subject
\* of Spec.
ProtocolStep ==
    \/ ConnectToServer /\ Slot
    \/ \E k \in 0..Len(net) : OnConnected(k) /\ Slot
    \/ OnDisconnected /\ Slot
    \/ net # << >> /\ OnReadyRead(Len(net)) /\ Slot
    \/ ProcessBuffer /\ Slot

\* Callers waiting for events.
WaitNext ==
    \/ ProtocolStep
    \/ \E f \in EventFrames : ServerSendEvent(f) /\ Slot
    \/ \E e \in EventCodes \cup { None }, cb \in BOOLEAN : AwaitEvent(e, cb)
    \/ \E i \in DOMAIN waits : TimeoutElapses(i)

\* Callers waiting for events and sending commands.
ConnNext == WaitNext \/ QtmVersion

\* Callers sending commands and asking for frames.
FrameNext ==
    \/ ProtocolStep
    \/ \E f \in AnswerFrames : ServerSendAnswer(f) /\ Slot
    \/ QtmVersion
    \/ \E c \in Components : GetCurrentFrame(c)

\* What a server puts into a Data frame: a frame number and components, a
\* 3D component with its markers or a component of a kind this client does
\* not know, with its payload.
Component(kind, markers, payload) == [kind |-> kind, markers |-> markers, payload |-> payload]

RECURSIVE EncodeMarkers(_)
EncodeMarkers(ms) ==
    IF ms = << >> THEN << >>
    ELSE LE32(ms[1][1]) \o LE32(ms[1][2]) \o LE32(ms[1][3]) \o EncodeMarkers(Tail(ms))

EncodeComponent(c) ==
    LET payload == IF c.kind = Component3d
                   THEN LE32(Len(c.markers)) \o EncodeMarkers(c.markers)
                   ELSE c.payload
    IN  LE32(c.kind) \o LE32(ComponentHeaderSize + Len(payload)) \o payload

RECURSIVE EncodeComponents(_)
EncodeComponents(cs) ==
    IF cs = << >> THEN << >> ELSE EncodeComponent(cs[1]) \o EncodeComponents(Tail(cs))

EncodeData(d) ==
    << 0, 0, 0, 0, 0, 0, 0, 0 >> \o LE32(d.frame) \o LE32(Len(d.comps))
        \o EncodeComponents(d.comps)

\* A kind code no component type has.
UnknownKind == 99

\* Frames of data: none, one 3D component with no, one or two markers, a
\* component of an unknown kind before or after the 3D component.
DataDescs ==
    { [frame |-> 1, comps |-> << >>],
      [frame |-> 2, comps |-> << Component(Component3d, << >>, << >>) >>],
      [frame |-> 3, comps |-> << Component(Component3d, << << 1, 2, 3 >> >>, << >>) >>],
      [frame |-> 4, comps |-> << Component(Component3d, << << 1, 2, 3 >>, << 4, 5, 6 >> >>, << >>) >>],
      [frame |-> 5, comps |-> << Component(UnknownKind, << >>, << 7, 7, 7 >>),
                                 Component(Component3d, << << 1, 2, 3 >> >>, << >>) >>],
      [frame |-> 6, comps |-> << Component(Component3d, << << 4, 5, 6 >> >>, << >>),
                                 Component(UnknownKind, << >>, << 7 >>) >>] }

\* Bodies that do not decode: shorter than the metadata block; a block cut
\* short of its declared length; a count of three with one marker present.
BadBodies ==
    { << 0 >>,
      SubSeq(EncodeData([frame |-> 7, comps |-> << Component(Component3d, << << 1, 2, 3 >> >>, << >>) >>]),
             1, QRTHeaderSize + ComponentHeaderSize + 4 + 8),
      << 0, 0, 0, 0, 0, 0, 0, 0 >> \o LE32(8) \o LE32(1)
          \o LE32(Component3d) \o LE32(ComponentHeaderSize + 4 + MarkerSize)
          \o LE32(3) \o LE32(1) \o LE32(2) \o LE32(3) }

DataFrames ==
    { WellFormed(PacketData, EncodeData(d)) : d \in DataDescs }
        \cup { WellFormed(PacketData, b) : b \in BadBodies }
        \cup { WellFormed(PacketCommand, << 67, 0 >>) }

ServerSendData(f) == ServerWrites(f, MaxDataFrames)

\* Callers sending commands, a server streaming frames of data.
DataNext ==
    \/ ProtocolStep
    \/ \E f \in DataFrames : ServerSendData(f) /\ Slot
    \/ QtmVersion

\* ------------------------------------------------------------- calibration
\* "calibrate"
CalibrateCmd == << 99, 97, 108, 105, 98, 114, 97, 116, 101 >>

\* "Starting calibration", the text the handler takes for the acknowledgement
StartingCalibration ==
    << 83, 116, 97, 114, 116, 105, 110, 103, 32,
       99, 97, 108, 105, 98, 114, 97, 116, 105, 111, 110 >>

\* calibrate(callback): calibration_in_progress is set before anything is
\* sent; the continuation is the caller's callback (own) or, without one,
\* _on_calibration_started.
Calibrate(own) ==
    /\ Len(calls) < MaxCalls
    /\ SendCommand(CalibrateCmd, TRUE)
    /\ calibration_in_progress' = TRUE
    /\ current_callback' = Len(calls) + 1
    /\ calls' = Append(calls, [method |-> "calibrate", own |-> own,
                               send |-> IF connected_flag THEN Len(sends) + 1 ELSE None])
    /\ cout' = ConnQuiet
    /\ UNCHANGED << event_callback, expected_event, waits, resolved >>

\* _on_calibration_started(response): any text but the acknowledgement is
\* an error and ends the calibration.
OnCalibrationStarted(response, cal) ==
    IF response.data = StartingCalibration
    THEN [calibration_in_progress |-> cal, emitted |-> << >>]
    ELSE [calibration_in_progress |-> FALSE,
          emitted |-> << [signal |-> "error_occurred", data |-> response.data] >>]

\* The continuation of the call is _on_calibration_started.
DefaultHandler(c) == c \in DOMAIN calls /\ ~calls[c].own

\* The slots of a calibrating QtQRTConnection, run on what the protocol did
\* in this step: the continuation it called, when that is
\* _on_calibration_started, or _on_response_received on what it emitted,
\* with _on_calibration_started behind current_callback.
CalSlot ==
    IF out'.invoked # << >>
    THEN LET by == { c \in DOMAIN calls : calls[c].send = out'.invoked[1].id }
             h == OnCalibrationStarted(out'.invoked[1].resp, calibration_in_progress)
         IN  /\ IF \E c \in by : DefaultHandler(c)
                THEN /\ calibration_in_progress' = h.calibration_in_progress
                     /\ cout' = ConnEffects(<< >>, << >>, h.emitted)
                ELSE /\ calibration_in_progress' = calibration_in_progress
                     /\ cout' = ConnQuiet
             /\ UNCHANGED << current_callback, event_callback, expected_event,
                             waits, resolved, calls >>
    ELSE IF out'.resp # << >>
    THEN LET r == OnResponseReceived(out'.resp[1], current_callback, event_callback,
                                     expected_event, calibration_in_progress)
             viaDefault == r.recalled # << >> /\ DefaultHandler(r.recalled[1].id)
             h == OnCalibrationStarted(out'.resp[1], r.calibration_in_progress)
         IN  /\ current_callback' = r.current_callback
             /\ event_callback' = r.event_callback
             /\ expected_event' = r.expected_event
             /\ calibration_in_progress' = IF viaDefault THEN h.calibration_in_progress
                                           ELSE r.calibration_in_progress
             /\ cout' = ConnEffects(r.called, r.recalled,
                                    IF viaDefault THEN h.emitted ELSE r.emitted)
             /\ UNCHANGED << waits, resolved, calls >>
    ELSE /\ cout' = ConnQuiet
         /\ UNCHANGED << current_callback, event_callback, expected_event,
                         calibration_in_progress, waits, resolved, calls >>

\* What the server of a calibration writes: the acknowledgement, a refusal
\* ("F"), the result as XML ("X").
CalFrames ==
    { WellFormed(PacketCommand, StartingCalibration \o << 0 >>),
      WellFormed(PacketCommand, << 70, 0 >>),
      WellFormed(PacketXML, << 88, 0 >>) }

ServerSendCal(f) == ServerWrites(f, MaxCalFrames)

CalNext ==
    \/ ConnectToServer /\ CalSlot
    \/ \E k \in 0..Len(net) : OnConnected(k) /\ CalSlot
    \/ OnDisconnected /\ CalSlot
    \/ net # << >> /\ OnReadyRead(Len(net)) /\ CalSlot
    \/ ProcessBuffer /\ CalSlot
    \/ \E f \in CalFrames : ServerSendCal(f) /\ CalSlot
    \/ \E own \in BOOLEAN : Calibrate(own)

\* The connection layer, callers calibrating.
SpecCal == Init /\ [][CalNext]_vars

\* The connection layer with a server streaming data, not all of it sound.
SpecData == Init /\ [][DataNext]_vars

\* The connection layer, a server sending events, callers waiting for them.
SpecWait == Init /\ [][WaitNext]_vars

\* The same, callers also sending commands.
SpecConn == Init /\ [][ConnNext]_vars

\* The connection layer, callers sending commands, a server answering.
SpecFrame == Init /\ [][FrameNext]_vars

\* ------------------------------------------------------------- properties
\* The request-response kinds.
RRTypes == { PacketError, PacketCommand, PacketXML }

\* Number of request-response frames among the first n frames of s.
RECURSIVE RRCount(_, _)
RRCount(s, n) ==
    IF n = 0 THEN 0
    ELSE RRCount(s, n - 1) + (IF s[n].type \in RRTypes THEN 1 ELSE 0)

\* The response _handle_packet builds for a request-response frame f of the server.
ResponseOf(f) == Response(f.type, RStripNul(f.body))

\* C1: commands are answered in send order.  callback_queue always holds
\* the sends not yet answered, in send order; a continuation enqueued at
\* position pos when `at` request-response frames had been handled receives
\* the (at + pos)-th request-response frame of the stream, with that
\* frame's type and text, whatever Event and Data frames lie in between;
\* so of two sends the earlier gets the earlier frame, never the later.
C1_SendOrder ==
    /\ \A i \in DOMAIN callback_queue :
          LET k == Len(sends) - Len(callback_queue) + i IN
          /\ k \in DOMAIN sends
          /\ callback_queue[i] = Entry(sends[k].id, sends[k].cb)
    /\ \A i \in DOMAIN delivered :
          LET d == delivered[i]
              s == sends[d.id]
          IN  /\ d.frame \in DOMAIN sent
              /\ sent[d.frame].type \in RRTypes
              /\ RRCount(sent, d.frame) = s.at + s.pos
              /\ d.resp = ResponseOf(sent[d.frame])
    /\ \A i, j \in DOMAIN delivered :
          i < j => /\ delivered[i].id < delivered[j].id
                   /\ delivered[i].frame < delivered[j].frame

\* A and B were both sent before A's response was handled, an Event or
\* Data frame arrived between the two responses, and both were delivered.
C1_Witness ==
    /\ Len(delivered) = 2
    /\ sends[delivered[1].id].at = sends[delivered[2].id].at
    /\ delivered[2].frame = delivered[1].frame + 2
    /\ sent[delivered[1].frame + 1].type \in { PacketEvent, PacketData }

\* C2: a continuation is consumed exactly once.  No send is delivered to
\* twice; a send with a continuation has been delivered to exactly when the
\* number of request-response frames handled since it was enqueued has
\* reached its position in the queue, and it was delivered to at that very
\* frame; a placeholder is never called.
C2_ExactlyOnce ==
    \A i \in DOMAIN sends :
        LET s == sends[i]
            hits == { j \in DOMAIN delivered : delivered[j].id = s.id }
        IN  /\ Cardinality(hits) <= 1
            /\ s.cb => (hits # {} <=> nrr >= s.at + s.pos)
            /\ \A j \in hits : delivered[j].n = s.at + s.pos
            /\ ~s.cb => hits = {}

\* A continuation enqueued behind another entry has been delivered to.
C2_Witness ==
    \E i \in DOMAIN sends :
        /\ sends[i].cb
        /\ sends[i].pos = 2
        /\ \E j \in DOMAIN delivered : delivered[j].id = i

\* C3: split-invariance.  Whatever the cuts, the frames handed to
\* _handle_packet are the frames the server sent, same type and same bytes,
\* in the same order, none twice; once every byte has been read, all of
\* them have been handed over.
C3_SplitInvariance ==
    /\ Len(dispatched) <= Len(sent)
    /\ \A i \in DOMAIN dispatched :
          dispatched[i] = [type |-> sent[i].type, data |-> FrameBytes(sent[i])]
    /\ (pc = "idle" /\ link = "connected" /\ net = << >>) => Len(dispatched) = Len(sent)

\* A read ended inside a frame after an earlier frame was dispatched, and
\* the stream still has bytes to deliver.
C3_Witness ==
    /\ pc = "idle"
    /\ dispatched # << >>
    /\ buffer # << >>
    /\ net # << >>
    /\ Len(sent) = MaxFrames

\* The handlers a caller sends with.
SendOps == { "send_command", "send_xml" }

\* C4: a send while not connected is signalled to the caller, by an
\* exception or an error emitted, rather than passing in silence.
C4_SendSignalled ==
    (out.op \in SendOps /\ ~connected_flag) => (out.raised # "none" \/ out.err # << >>)

\* The step is a send made while not connected.
RejectedSend == pc = "idle" /\ ~connected_flag /\ out'.op \in SendOps

\* C5: a send while not connected changes nothing of the connection:
\* nothing is written, callback_queue, buffer and connected_flag stay as
\* they were, and no continuation or signal fires.
C5_NoSideEffect ==
    [][RejectedSend =>
          /\ out'.wrote = << >>
          /\ callback_queue' = callback_queue
          /\ buffer' = buffer
          /\ connected_flag' = connected_flag
          /\ out'.invoked = << >>
          /\ out'.resp = << >>
          /\ UNCHANGED << sends, net, link >>]_vars

\* A send was refused after the connection closed with an entry still queued
\* and bytes still buffered.
C5_Witness ==
    /\ out.op \in SendOps
    /\ ~connected_flag
    /\ callback_queue # << >>
    /\ buffer # << >>

\* The frame at the head of the buffer and what the header declares.
HeadSize == U32(buffer, 1)
HeadType == U32(buffer, 5)
HeadData == Take(buffer, HeadSize)

\* The next step of _process_buffer hands the head frame to _handle_packet.
Dispatching == pc = "process" /\ FrameReady /\ Len(dispatched) < MaxDispatch

\* C6: a header declaring less than the header's own size is a framing
\* error: no handler runs for it, the reader stops and the connection is
\* failed.
C6_ShortFrameRejected ==
    [][(pc = "process" /\ Len(buffer) >= RTheaderSize /\ HeadSize < RTheaderSize
        /\ Len(dispatched) < MaxDispatch) =>
          /\ out'.frame = << >>
          /\ pc' = "idle"
          /\ ~connected_flag']_vars

\* The kinds _handle_packet has a branch for.
HandledTypes == { PacketError, PacketCommand, PacketXML, PacketData, PacketEvent }

\* C7: a complete frame of a kind the client does not recognise is
\* ignored: no exception leaves the reader, no queue entry is consumed,
\* nothing is emitted, the frame's bytes leave the buffer and the loop goes
\* on to the next frame.
C7_UnknownIgnored ==
    [][(Dispatching /\ HeadSize >= RTheaderSize /\ HeadType \notin HandledTypes) =>
          /\ out'.raised = "none"
          /\ callback_queue' = callback_queue
          /\ out'.resp = << >>
          /\ out'.invoked = << >>
          /\ buffer' = Drop(buffer, HeadSize)
          /\ pc' = "process"]_vars

\* C8: handling an Error, Command or XML frame with a non-empty queue
\* removes exactly the head, be it a continuation or a placeholder.
C8_PopsHead ==
    [][(Dispatching /\ HeadType \in RRTypes /\ callback_queue # << >>) =>
          callback_queue' = Tail(callback_queue)]_vars

\* A placeholder at the head was removed by a response, the entry behind it
\* stayed.
C8_Witness ==
    /\ out.op = "_process_buffer"
    /\ out.frame # << >>
    /\ Len(sends) = 2
    /\ ~sends[1].cb
    /\ sends[2].at = 0
    /\ nrr = 1
    /\ Len(callback_queue) = 1
    /\ callback_queue[1].id = 2

\* An Event frame carries a code of the enumeration; a Data frame has a
\* body the QRTPacket constructor accepts.
HeadBody == Drop(HeadData, RTheaderSize)
HeadCarriesEvent == HeadType = PacketEvent /\ HeadBody # << >> /\ HeadBody[1] \in QRTEventValues
HeadCarriesData == HeadType = PacketData /\ ~QRTPacketRaises(HeadBody)

\* C9: handling an Event or Data frame leaves callback_queue as it is and
\* calls no continuation; the event code, or the decoded packet, is emitted
\* on response_received exactly once.
C9_BypassesQueue ==
    [][(Dispatching /\ HeadType \in { PacketEvent, PacketData }) =>
          /\ callback_queue' = callback_queue
          /\ out'.invoked = << >>
          /\ delivered' = delivered
          /\ HeadCarriesEvent => out'.resp = << Response(PacketEvent, << HeadBody[1] >>) >>
          /\ HeadCarriesData => out'.resp = << Response(PacketData, HeadBody) >>]_vars

\* An Event frame was emitted while a continuation was waiting at the head.
C9_Witness ==
    /\ out.op = "_process_buffer"
    /\ out.frame # << >>
    /\ out.frame[1].type = PacketEvent
    /\ Len(out.resp) = 1
    /\ callback_queue # << >>
    /\ callback_queue[1].cb

\* C10: a response that finds callback_queue empty is unsolicited: it is
\* emitted once on response_received, no continuation is called, no
\* exception is raised and the queue stays empty.
C10_EmptyQueue ==
    [][(Dispatching /\ HeadType \in RRTypes /\ callback_queue = << >>) =>
          /\ out'.resp = << Response(HeadType, DecodeText(HeadData)) >>
          /\ out'.invoked = << >>
          /\ out'.raised = "none"
          /\ callback_queue' = << >>
          /\ delivered' = delivered]_vars

\* A response was emitted although nothing had ever been sent.
C10_Witness ==
    /\ out.op = "_process_buffer"
    /\ out.frame # << >>
    /\ out.frame[1].type \in RRTypes
    /\ sends = << >>
    /\ Len(out.resp) = 1
    /\ callback_queue = << >>

\* The step is a send made while connected.
AcceptedSend == pc = "idle" /\ connected_flag /\ out'.op \in SendOps

\* C11: every send made while connected appends exactly one entry to
\* callback_queue, a placeholder when no callback was given; a response
\* that finds a placeholder at the head is emitted on response_received
\* and passed to no continuation, and the entries behind the placeholder
\* keep their order, so later sends are still answered by their own
\* responses.
C11_Placeholder ==
    [][/\ AcceptedSend =>
            /\ Len(callback_queue') = Len(callback_queue) + 1
            /\ SubSeq(callback_queue', 1, Len(callback_queue)) = callback_queue
            /\ Len(sends') = Len(sends) + 1
            /\ callback_queue'[Len(callback_queue')].cb = sends'[Len(sends')].cb
            /\ callback_queue'[Len(callback_queue')].id = Len(sends')
       /\ (Dispatching /\ HeadType \in RRTypes /\ callback_queue # << >>
           /\ ~Head(callback_queue).cb) =>
            /\ out'.resp = << Response(HeadType, DecodeText(HeadData)) >>
            /\ out'.invoked = << >>
            /\ delivered' = delivered
            /\ callback_queue' = Tail(callback_queue)]_vars

\* A send without a callback was followed by a send with one; the first
\* response was emitted and the second went to the later send's callback.
C11_Witness ==
    /\ Len(sends) = 2
    /\ ~sends[1].cb
    /\ sends[2].cb
    /\ sends[2].at = 0
    /\ Len(delivered) = 1
    /\ delivered[1].id = 2
    /\ delivered[1].n = 2
    /\ out.invoked # << >>

\* C12: once the connection has closed, no continuation is left in
\* callback_queue and no await_event waiter is left registered: each was
\* resolved with a connection-closed error when the disconnect was handled.
C12_DrainedOnClose ==
    link = "closed" =>
        /\ \A i \in DOMAIN callback_queue : ~callback_queue[i].cb
        /\ event_callback = None
        /\ expected_event = None

\* The next step handles the greeting, the first frame of the connection.
GreetingAtHead == Dispatching /\ dispatched = << >> /\ HeadData = FrameBytes(Greeting)

\* C13: the greeting is unsolicited whenever it arrives: handling it pops
\* no entry of callback_queue and calls no continuation, it is emitted on
\* response_received as a Command response.
C13_GreetingUnsolicited ==
    [][GreetingAtHead =>
          /\ callback_queue' = callback_queue
          /\ out'.invoked = << >>
          /\ out'.resp = << Response(PacketCommand, RStripNul(Greeting.body)) >>]_vars

\* The next step handles an Event frame carrying a code, a callback waiting.
EventForWaiter == Dispatching /\ HeadCarriesEvent /\ event_callback # None

\* A step that may touch the waiter: await_event, or an Event frame handled.
WaiterStep == out'.op = "await_event" \/ (Dispatching /\ HeadType = PacketEvent)

\* C14: a waiter registered for any event (event None) with a callback
\* stays registered until the next Event frame or the next await_event,
\* and the next Event frame that finds it registered, whatever its code,
\* resolves it: the callback is called once with the frame's code and the
\* waiter is removed.
C14_AnyEvent ==
    [][/\ (out'.op = "await_event" /\ waits'[Len(waits')].cb) =>
            /\ event_callback' = Len(waits')
            /\ expected_event' = waits'[Len(waits')].ev
       /\ ~WaiterStep => UNCHANGED << event_callback, expected_event >>
       /\ (EventForWaiter /\ expected_event = None) =>
            /\ cout'.called = << [id |-> event_callback, code |-> HeadBody[1]] >>
            /\ event_callback' = None
            /\ expected_event' = None]_vars

\* A waiter for any event was called with the code of the event that came.
C14_Witness ==
    /\ cout.called # << >>
    /\ waits[cout.called[1].id].ev = None
    /\ cout.called[1].code = 2
    /\ event_callback = None

\* C15: a waiter registered for event X is neither called nor removed by an
\* Event frame of another code; the first Event frame of code X that finds
\* it registered calls it with X and removes it.
C15_SpecificEvent ==
    [][(EventForWaiter /\ expected_event # None) =>
          IF HeadBody[1] = expected_event
          THEN /\ cout'.called = << [id |-> event_callback, code |-> expected_event] >>
               /\ event_callback' = None
               /\ expected_event' = None
          ELSE /\ cout'.called = << >>
               /\ resolved' = resolved
               /\ UNCHANGED << event_callback, expected_event >>]_vars

\* A waiter for event 2, registered before any frame, sat through two events
\* of code 1 and was resolved by the third frame, of code 2.
C15_Witness ==
    \E r \in DOMAIN resolved :
        /\ waits[resolved[r].id].ev = 2
        /\ waits[resolved[r].id].at = 0
        /\ resolved[r].frame = 3
        /\ resolved[r].code = 2

\* Event frame number n was handled after wait w was registered and matches
\* what w asked for.
Matches(w, n) ==
    /\ n > waits[w].at
    /\ dispatched[n].type = PacketEvent
    /\ waits[w].ev \in { None, dispatched[n].data[RTheaderSize + 1] }

\* C16: waiters are independent: every waiter with a callback that an
\* Event frame handled since its registration matches has been resolved,
\* however many other waiters were registered at the time.
C16_AllMatching ==
    \A w \in DOMAIN waits :
        (waits[w].cb /\ \E n \in DOMAIN dispatched : Matches(w, n)) =>
            \E r \in DOMAIN resolved : resolved[r].id = w

\* C17: await_event called while an earlier waiter is still pending ends
\* in an error for one of the two.
C17_SecondWaitFails ==
    [][(pc = "idle" /\ event_callback # None /\ out'.op = "await_event") =>
          (out'.raised # "none" \/ out'.err # << >>)]_vars

\* C18: a waiter whose timeout has passed without a matching event is no
\* longer registered, so that no later event resolves it.
C18_TimedOut ==
    \A w \in DOMAIN waits : waits[w].expired => event_callback # w

HeadIsFrameRequest ==
    /\ callback_queue # << >>
    /\ \E c \in DOMAIN calls :
          /\ calls[c].method = "get_current_frame"
          /\ calls[c].send = Head(callback_queue).id

\* C20: the Data frame that answers getcurrentframe is passed to the
\* callback given to get_current_frame, and the command's entry leaves
\* callback_queue.
C20_FrameToCallback ==
    [][(Dispatching /\ HeadType = PacketData /\ HeadIsFrameRequest) =>
          /\ out'.invoked = << [id |-> Head(callback_queue).id,
                                resp |-> Response(PacketData, HeadBody)] >>
          /\ callback_queue' = Tail(callback_queue)]_vars


\* The frame at the head of the buffer is a Data frame whose body QRTPacket
\* does not decode.
HeadFailsToDecode ==
    HeadType = PacketData /\ QRTPacketRaises(HeadBody)

\* C21: a Data frame whose body does not decode is an error of that frame
\* alone: its bytes leave the buffer, the error is surfaced on
\* error_occurred, no exception leaves the handler, the connection stays
\* connected, callback_queue is unchanged and the loop goes on to the frames
\* that follow.
C21_DecodeErrorLocal ==
    [][(Dispatching /\ HeadFailsToDecode) =>
          /\ buffer' = Drop(buffer, HeadSize)
          /\ out'.err # << >>
          /\ out'.raised = "none"
          /\ connected_flag'
          /\ callback_queue' = callback_queue
          /\ pc' = "process"]_vars


\* The frame at the head of the buffer answers no continuation: a Data or
\* Event frame, or a response that finds callback_queue empty or a
\* placeholder at its head.
HeadUnsolicited ==
    \/ HeadType \in { PacketData, PacketEvent }
    \/ /\ HeadType \in RRTypes
       /\ callback_queue = << >> \/ ~Head(callback_queue).cb

\* C22: every unsolicited frame is delivered exactly once, to exactly one
\* sink: its dispatch makes one notification in all, counting what is
\* emitted on response_received and on error_occurred, an Error frame
\* included, and calls no continuation.
C22_OneNotification ==
    [][(Dispatching /\ HeadUnsolicited) =>
          /\ Len(out'.resp) + Len(out'.err) = 1
          /\ out'.invoked = << >>]_vars


\* C23: no frame is passed to _handle_packet before all total_size bytes of
\* it are buffered, and the frame passed is those bytes, the rest of the
\* buffer staying as it is; whenever _process_buffer returns normally the
\* buffer holds fewer than RTheaderSize bytes or a header whose total_size
\* exceeds what is buffered, and that leftover is kept unchanged.
C23_WholeFrames ==
    [][/\ dispatched' # dispatched =>
            /\ Len(buffer) >= RTheaderSize
            /\ U32(buffer, 1) <= Len(buffer)
            /\ dispatched'[Len(dispatched')].data = SubSeq(buffer, 1, U32(buffer, 1))
            /\ out'.raised = "none" => buffer' = SubSeq(buffer, U32(buffer, 1) + 1, Len(buffer))
       /\ (pc = "process" /\ pc' = "idle" /\ out'.raised = "none") =>
            /\ buffer' = buffer
            /\ Len(buffer) < RTheaderSize \/ U32(buffer, 1) > Len(buffer)]_vars

\* _process_buffer returned with a header and part of a frame left in the
\* buffer, after two frames were dispatched.
C23_Witness ==
    /\ pc = "idle"
    /\ out.op = "_process_buffer"
    /\ out.frame = << >>
    /\ Len(buffer) >= RTheaderSize
    /\ U32(buffer, 1) > Len(buffer)
    /\ Len(dispatched) = 2


\* The body of the Data frame dispatched in the last step.
DataDispatched(body) ==
    /\ out.op = "_process_buffer"
    /\ out.frame # << >>
    /\ out.frame[1].type = PacketData
    /\ Drop(out.frame[1].data, RTheaderSize) = body

\* The markers of the first 3D component a server put into a frame.
MarkersSent(d) ==
    LET has == { i \in DOMAIN d.comps : d.comps[i].kind = Component3d }
    IN  IF has = { } THEN << >>
        ELSE << [signal |-> "markers_3d_received",
                 data |-> d.comps[CHOOSE i \in has : \A j \in has : i <= j].markers] >>

\* C24: the body of a Data frame is decoded component by component, each
\* block stepped over by its declared byte length: the components come out
\* in the order sent, a known kind with as many records as its count field
\* says and with the values sent, an unknown kind skipped, the walk ending
\* at the last byte of the body; a body whose blocks or counts reach past
\* its end is not read beyond it but refused.
C24_SequentialDecode ==
    /\ \A d \in DataDescs :
          DataDispatched(EncodeData(d)) =>
             LET r == DecodeData(EncodeData(d)) IN
             /\ r.ok
             /\ out.raised = "none"
             /\ Len(r.components) = Len(d.comps)
             /\ \A i \in DOMAIN d.comps :
                   /\ r.components[i].kind = d.comps[i].kind
                   /\ r.components[i].records = d.comps[i].markers
             /\ r.reach = Len(EncodeData(d))
             /\ cout.emitted = MarkersSent(d)
    /\ \A b \in BadBodies :
          DataDispatched(b) => out.raised # "none" /\ cout.emitted = << >>

\* A frame with a component of an unknown kind ahead of a 3D component was
\* dispatched and its marker emitted.
C24_Witness ==
    /\ \E d \in DataDescs :
          /\ Len(d.comps) = 2
          /\ d.comps[1].kind = UnknownKind
          /\ DataDispatched(EncodeData(d))
    /\ cout.emitted = << [signal |-> "markers_3d_received", data |-> << << 1, 2, 3 >> >>] >>


\* C25: a complete frame is passed to _handle_packet exactly once, also
\* when the continuation it is delivered to raises: the step that
\* dispatches it takes its bytes off the buffer, so that no more frames are
\* dispatched than the server sent.
C25_OnceDespiteFailure ==
    [][dispatched' # dispatched =>
          /\ buffer' = Drop(buffer, HeadSize)
          /\ Len(dispatched') <= Len(sent)]_vars


\* C26: nothing of a closed connection is left for the next one: when the
\* disconnect has been handled, and still when the socket connects again,
\* callback_queue and buffer are empty, so that the new connection's first
\* response meets no continuation of the old one and its first frame is
\* parsed from its first byte.
C26_NoLeak ==
    [][/\ (~connected_flag' /\ link' = "closed") =>
            callback_queue' = << >> /\ buffer' = << >>
       /\ (link = "closed" /\ link' = "connected") =>
            callback_queue' = << >> /\ buffer' = << >>]_vars


\* C27: a callback given to a command method is invoked at most once, with
\* the response to its command: once the protocol has delivered that
\* response to it, the slot _on_response_received does not pass a later
\* response to the same callback through current_callback.
C27_CallbackOnce ==
    [][\A i \in DOMAIN cout'.recalled :
          LET c == calls'[cout'.recalled[i].id] IN
          ~\E j \in DOMAIN delivered' : delivered'[j].id = c.send]_vars


\* The continuation of a calibrate call was handed the acknowledgement.
Acknowledged ==
    \E j \in DOMAIN delivered :
       /\ delivered[j].resp.data = StartingCalibration
       /\ \E c \in DOMAIN calls :
             calls[c].method = "calibrate" /\ calls[c].send = delivered[j].id

\* The continuation of a calibrate call is handed a refusal in this step.
Refused ==
    /\ out'.invoked # << >>
    /\ out'.invoked[1].resp.data # StartingCalibration
    /\ \E c \in DOMAIN calls :
          calls[c].method = "calibrate" /\ calls[c].send = out'.invoked[1].id

\* C28: calibration_completed is emitted only for a calibration the server
\* acknowledged with "Starting calibration", and a refused calibrate leaves
\* calibration_in_progress cleared, whoever supplied the continuation, so
\* that no unsolicited XML is reported as the result of a calibration.
C28_CalibrationResult ==
    [][/\ (\E i \in DOMAIN cout'.emitted :
              cout'.emitted[i].signal = "calibration_completed") => Acknowledged
       /\ Refused => ~calibration_in_progress']_vars

=============================================================================
